---------------------------- MODULE Spec2Model ----------------------------
(***************************************************************************)
(* Model of .github/scripts/generateJson.py: the sliding-window            *)
(* RateLimiter, the Steam Workshop scraper that calls it, and the          *)
(* two-pass catalog builder with its persisted GitHub-statistics queue.    *)
(*                                                                         *)
(* The specifications of the module share its variables:                  *)
(*   SpecRL      threads calling get_workshop_data concurrently            *)
(*   SpecAcquire the same threads under fair scheduling                    *)
(*   Spec        one complete run of generate_json, all scrape outcomes    *)
(*   SpecRuns    several runs in succession over the files left on disk    *)
(*   SpecOneRun  one run under fair scheduling, from get_repos on          *)
(*   SpecForever runs without end under fair scheduling                    *)
(*   SpecMarker  the parsing of one workshop.txt                           *)
(*   SpecSoup    the subscriber scan of one parsed page                    *)
(*   SpecResolve one call of get_workshop_id_from_repo                     *)
(***************************************************************************)
EXTENDS Integers, Sequences, FiniteSets, TLC

(***************************************************************************)
(* Bounds of the model.  Time is counted in ticks of 0.1 s, the unit of    *)
(* the limiter's safety margin.                                            *)
(***************************************************************************)
\* RateLimiter.max_requests of the modelled limiter (the script builds one with 9)
MaxRequests == 2
\* RateLimiter.window of the modelled limiter, in ticks (the script uses 60 s)
Window == 3
\* last tick of the clock
MaxTime == 5
\* threads calling get_workshop_data
NumThreads == 2
\* calls of get_workshop_data over a behaviour
MaxCalls == 2

\* repositories the hosting platform can list
NumRepos == 3
\* distinct Workshop identifiers
NumIds == 3
\* GITHUB_API_LIMIT of the modelled run: statistics requests per run (the
\* script sets 55)
GITHUB_API_LIMIT == 1
\* runs of the script in succession
MaxRuns == 3

\* STEAM_MAX_WORKERS = 1
STEAM_MAX_WORKERS == 1
\* the 0.1 s added to the limiter's sleep, in ticks
SafetyMargin == 1
\* get_workshop_data(steam_url, max_retries=3)
max_retries == 3

None == "None"

Threads == 1..NumThreads

VARIABLES
    clock,      \* time.time(), in ticks
    requests,   \* RateLimiter.requests, the deque of recorded timestamps
    lock,       \* RateLimiter.lock: 0 when free, else the holding thread
    pc,         \* per thread: the line of get_workshop_data it is at
    attempt,    \* per thread: the loop variable of get_workshop_data
    wakeAt,     \* per thread: earliest tick at which time.sleep returns
    backoff,    \* per thread: seconds of the last retry backoff (0: none)
    outcome,    \* per thread: what the GET of the attempt did (None: not yet sent)
    calls,      \* get_workshop_data calls started so far
    callId,     \* per thread: the number of the call it is executing
    ret,        \* per thread: what its last get_workshop_data call returned
    recorded,   \* history: every timestamp appended by acquire(), in order
    steamGets,  \* history: every GET sent to the listing page
    run,        \* number of the current run of the script
    phase,      \* where the main thread of the run is
    repos,      \* what get_repos() returned
    existing_github_stats,  \* keys of the statistics cache
    pending_queue,          \* the queue loaded from QUEUE_FILE
    mods,                   \* the catalog under construction
    seen_workshop_ids,
    tasks,      \* executor work queue: submitted tasks not yet started
    running,    \* tasks a worker thread is executing
    finished,   \* completed futures as_completed has not yet yielded
    repos_to_fetch,
    fetch_count,
    fetch_idx,  \* position of the statistics fetch loop in repos_to_fetch
    fileMods,   \* OUTPUT_FILE on disk
    fileQueue,  \* QUEUE_FILE on disk
    taskLog,    \* history: the tasks of this run, in completion order
    apiRequests,\* history: GETs of this run to the repository-metadata endpoint
    fetchedOk,  \* history: URLs whose statistics this run fetched
    presorted,  \* history: the catalog as it was just before mods.sort
    statsAtLoad,\* history: the cache keys load_existing_stats returned
    prevFull,   \* history: the previous run fetched every entry of its catalog
    markerText, \* r.text of a fetched workshop.txt, a sequence of characters
    markerPc,   \* where the parsing of that text is
    markerId,   \* what the parsing of that text returned
    soupTables, \* the <table> elements of a scraped page, in document order
    soupPc,     \* where the scan of those tables is
    sub_count,  \* what the scan of those tables left in sub_count
    resRepo,    \* the repository get_workshop_id_from_repo was called with
    resPc,      \* where that call is
    resMain,    \* what its fetch of main/workshop.txt yielded
    resRequests,\* history: the GETs that call issued, with their answers
    resResult   \* what that call returned

rlvars == <<clock, requests, lock, pc, attempt, wakeAt, backoff, outcome, calls, callId, ret,
            recorded, steamGets>>

pipevars == <<run, phase, repos, existing_github_stats, pending_queue, mods,
              seen_workshop_ids, tasks, running, finished, repos_to_fetch,
              fetch_count, fetch_idx, fileMods, fileQueue, taskLog, apiRequests,
              fetchedOk, presorted, statsAtLoad, prevFull>>

markervars == <<markerText, markerPc, markerId>>

tablevars == <<soupTables, soupPc, sub_count>>

resolvevars == <<resRepo, resPc, resMain, resRequests, resResult>>

\* the variables of the functions that are also run on their own
unitvars == <<markervars, tablevars, resolvevars>>

vars == <<rlvars, pipevars, unitvars>>

(***************************************************************************)
(* RateLimiter                                                             *)
(***************************************************************************)
\* while self.requests and now - self.requests[0] >= self.window: popleft()
RECURSIVE Expire(_, _)
Expire(q, now) ==
    IF q # <<>> /\ now - Head(q) >= Window THEN Expire(Tail(q), now) ELSE q

\* the sleep computed without the safety margin on the right side
SleepTimeShort(q, now) == Window - (now - Head(q)) - SafetyMargin

\* sleep_time = self.window - (now - self.requests[0]) + 0.1
SleepTime(q, now) == Window - (now - Head(q)) + SafetyMargin

\* with self.lock: now = time.time(); expire; decide whether to sleep.
\* time.sleep(sleep_time) returns no earlier than sleep_time after the call,
\* and the call is made no earlier than `now`.  The retry backoff that came
\* before this attempt is over: the thread may reach this line at any tick
\* after it.
AcquireEnter(t) ==
    /\ pc[t] = "l302"
    /\ lock = 0
    /\ lock' = t
    /\ LET q == Expire(requests, clock) IN
         /\ requests' = q
         /\ IF Len(q) >= MaxRequests /\ SleepTime(q, clock) > 0
              THEN /\ wakeAt' = [wakeAt EXCEPT ![t] = clock + SleepTime(q, clock)]
                   /\ pc' = [pc EXCEPT ![t] = "l92"]
              ELSE /\ wakeAt' = [wakeAt EXCEPT ![t] = 0]
                   /\ pc' = [pc EXCEPT ![t] = "l99"]
    /\ backoff' = [backoff EXCEPT ![t] = 0]
    /\ outcome' = [outcome EXCEPT ![t] = None]
    /\ UNCHANGED <<clock, attempt, calls, callId, ret, recorded, steamGets>>
    /\ UNCHANGED <<pipevars, unitvars>>

\* the return of time.sleep without the second clean-up of the deque
AcquireWakeNoExpire(t) ==
    /\ pc[t] = "l92"
    /\ clock >= wakeAt[t]
    /\ pc' = [pc EXCEPT ![t] = "l99"]
    /\ UNCHANGED <<clock, requests, lock, attempt, wakeAt, backoff, outcome, calls, callId,
                   ret, recorded, steamGets>>
    /\ UNCHANGED <<pipevars, unitvars>>

\* time.sleep returns; now = time.time(); expire again
AcquireWake(t) ==
    /\ pc[t] = "l92"
    /\ clock >= wakeAt[t]
    /\ requests' = Expire(requests, clock)
    /\ pc' = [pc EXCEPT ![t] = "l99"]
    /\ UNCHANGED <<clock, lock, attempt, wakeAt, backoff, outcome, calls, callId, ret,
                   recorded, steamGets>>
    /\ UNCHANGED <<pipevars, unitvars>>

\* self.requests.append(time.time()); the lock is released on leaving the block
AcquireRecord(t) ==
    /\ pc[t] = "l99"
    /\ requests' = Append(requests, clock)
    /\ recorded' = Append(recorded, clock)
    /\ lock' = 0
    /\ pc' = [pc EXCEPT ![t] = "l308"]
    /\ UNCHANGED <<clock, attempt, wakeAt, backoff, outcome, calls, callId, ret, steamGets>>
    /\ UNCHANGED <<pipevars, unitvars>>

Tick ==
    /\ clock < MaxTime
    /\ clock' = clock + 1
    /\ UNCHANGED <<requests, lock, pc, attempt, wakeAt, backoff, outcome, calls, callId, ret,
                   recorded, steamGets>>
    /\ UNCHANGED <<pipevars, unitvars>>


\* time advances: at will during the first window, and after it for as long
\* as a thread sleeps in acquire()
TickWaited ==
    /\ clock < Window \/ \E t \in Threads : pc[t] = "l92" /\ clock < wakeAt[t]
    /\ clock' = clock + 1
    /\ UNCHANGED <<requests, lock, pc, attempt, wakeAt, backoff, outcome, calls, callId, ret,
                   recorded, steamGets>>
    /\ UNCHANGED <<pipevars, unitvars>>

(***************************************************************************)
(* get_workshop_data: up to max_retries attempts, each one acquire() and   *)
(* one GET; a 200 response is parsed and extract_youtube_videos is called. *)
(***************************************************************************)
\* what requests.get(steam_url, ...) can do
\* ("unparsable": status 200, and the parsing of the page raises)
Responses == {"200", "429", "other", "timeout", "error", "unparsable"}

\* an entry of the history of GETs sent to the listing page: when it was sent,
\* in which attempt of which call, and whether steam_limiter.acquire() was
\* called for it
SteamGet(t, limited) ==
    [at |-> clock, call |-> callId[t], attempt |-> attempt[t], limited |-> limited]

\* a call of get_workshop_data starts (attempt = 0)
CallScraper(t) ==
    /\ pc[t] = "idle"
    /\ calls < MaxCalls
    /\ calls' = calls + 1
    /\ callId' = [callId EXCEPT ![t] = calls + 1]
    /\ pc' = [pc EXCEPT ![t] = "l302"]
    /\ attempt' = [attempt EXCEPT ![t] = 0]
    /\ backoff' = [backoff EXCEPT ![t] = 0]
    /\ outcome' = [outcome EXCEPT ![t] = None]
    /\ ret' = [ret EXCEPT ![t] = None]
    /\ UNCHANGED <<clock, requests, lock, wakeAt, recorded, steamGets>>
    /\ UNCHANGED <<pipevars, unitvars>>

\* the loop of attempts running one iteration further than range(max_retries)
NextAttemptOnceMore(t, secs) ==
    /\ backoff' = [backoff EXCEPT ![t] = secs]
    /\ IF attempt[t] + 1 <= max_retries
         THEN /\ attempt' = [attempt EXCEPT ![t] = attempt[t] + 1]
              /\ pc' = [pc EXCEPT ![t] = "l302"]
              /\ ret' = ret
         ELSE /\ attempt' = attempt
              /\ pc' = [pc EXCEPT ![t] = "idle"]
              /\ ret' = [ret EXCEPT ![t] = "unknown"]

\* `continue`, or falling out of an except clause: the next iteration of
\* `for attempt in range(max_retries)`, or the return after the loop
NextAttempt(t, secs) ==
    /\ backoff' = [backoff EXCEPT ![t] = secs]
    /\ IF attempt[t] + 1 < max_retries
         THEN /\ attempt' = [attempt EXCEPT ![t] = attempt[t] + 1]
              /\ pc' = [pc EXCEPT ![t] = "l302"]
              /\ ret' = ret
         ELSE /\ attempt' = attempt
              /\ pc' = [pc EXCEPT ![t] = "idle"]
              /\ ret' = [ret EXCEPT ![t] = "unknown"]

\* r = requests.get(steam_url, headers=headers, timeout=15), whose outcome is
\* one of rs, and the branch on it
ScraperGet(t, rs) ==
    /\ pc[t] = "l308"
    /\ steamGets' = Append(steamGets, SteamGet(t, TRUE))
    /\ \E r \in rs :
      /\ outcome' = [outcome EXCEPT ![t] = r]
      /\ CASE r = "429" ->
                NextAttempt(t, 30 * (attempt[t] + 1))
           [] r = "other" ->
                IF attempt[t] < max_retries - 1
                  THEN NextAttempt(t, 5 * (attempt[t] + 1))
                  ELSE /\ pc' = [pc EXCEPT ![t] = "idle"]
                       /\ ret' = [ret EXCEPT ![t] = "unknown"]
                       /\ UNCHANGED <<attempt, backoff>>
           [] r \in {"timeout", "error", "unparsable"} ->
                IF attempt[t] < max_retries - 1
                  THEN NextAttempt(t, 5 * (attempt[t] + 1))
                  ELSE NextAttempt(t, 0)
           [] r = "200" ->
                /\ pc' = [pc EXCEPT ![t] = "l335"]
                /\ UNCHANGED <<attempt, backoff, ret>>
    /\ UNCHANGED <<clock, requests, lock, wakeAt, calls, callId, recorded>>
    /\ UNCHANGED <<pipevars, unitvars>>

\* video_links = extract_youtube_videos(steam_url): r = requests.get(steam_url,
\* timeout=10), with no acquire(); then return sub_count, title, image, video_links
ScraperVideos(t) ==
    /\ pc[t] = "l335"
    /\ steamGets' = Append(steamGets, SteamGet(t, FALSE))
    /\ pc' = [pc EXCEPT ![t] = "idle"]
    /\ ret' = [ret EXCEPT ![t] = "page"]
    /\ UNCHANGED <<clock, requests, lock, attempt, wakeAt, backoff, outcome, calls, callId,
                   recorded>>
    /\ UNCHANGED <<pipevars, unitvars>>

(***************************************************************************)
(* workshop.txt: the text of the file and the parsing of lines 243-247      *)
(***************************************************************************)
\* lines a marker file is made of, at most
MaxLines == 3

SP == " "
NL == "\n"
IdPrefix == <<"i", "d", "=">>

\* the marker files: up to MaxLines lines joined by newlines, each line an
\* optional leading blank, a key with its "=", and a value
Leads == {<<>>, <<SP>>}
Keys == {IdPrefix, <<"x", "=">>, <<"x", "i", "d", "=">>}
Vals == {<<>>, <<"7">>, <<SP, "8", SP>>, <<"7", "=", "8">>}
Lines == {lead \o key \o val : lead \in Leads, key \in Keys, val \in Vals}

RECURSIVE JoinLines(_)
JoinLines(ls) ==
    IF Len(ls) = 1 THEN ls[1] ELSE ls[1] \o <<NL>> \o JoinLines(Tail(ls))

MarkerTexts == {JoinLines(ls) : ls \in UNION {[1..n -> Lines] : n \in 1..MaxLines}}

\* r.text.split('\n')
RECURSIVE SplitLines(_)
SplitLines(text) ==
    IF \A i \in DOMAIN text : text[i] # NL THEN <<text>>
    ELSE LET i == CHOOSE j \in DOMAIN text :
                      text[j] = NL /\ \A k \in 1..(j - 1) : text[k] # NL
         IN  <<SubSeq(text, 1, i - 1)>> \o SplitLines(SubSeq(text, i + 1, Len(text)))

\* str.strip(): leading and trailing whitespace removed
RECURSIVE LStrip(_)
LStrip(str) == IF str # <<>> /\ Head(str) = SP THEN LStrip(Tail(str)) ELSE str
RECURSIVE RStrip(_)
RStrip(str) ==
    IF str # <<>> /\ str[Len(str)] = SP THEN RStrip(SubSeq(str, 1, Len(str) - 1)) ELSE str
Strip(str) == RStrip(LStrip(str))

\* line.startswith(prefix)
StartsWith(line, prefix) ==
    Len(line) >= Len(prefix) /\ SubSeq(line, 1, Len(prefix)) = prefix

\* line.split('=', 1)[1], for a line that holds an "="
AfterEquals(line) ==
    LET i == CHOOSE j \in DOMAIN line : line[j] = "=" /\ \A k \in 1..(j - 1) : line[k] # "="
    IN  SubSeq(line, i + 1, Len(line))

\* what the loop over the lines returns: no identifier, or the identifier
NotFound == <<>>
Found(workshop_id) == <<workshop_id>>

\* the loop over the lines without the strip() of the value
RECURSIVE FirstIdUntrimmed(_)
FirstIdUntrimmed(lines) ==
    IF lines = <<>> THEN NotFound
    ELSE LET line == Strip(Head(lines))
         IN  IF StartsWith(line, IdPrefix)
               THEN Found(AfterEquals(line))
               ELSE FirstIdUntrimmed(Tail(lines))

\* for line in ...: line = line.strip(); if line.startswith('id='):
\*     workshop_id = line.split('=', 1)[1].strip(); return
RECURSIVE FirstId(_)
FirstId(lines) ==
    IF lines = <<>> THEN NotFound
    ELSE LET line == Strip(Head(lines))
         IN  IF StartsWith(line, IdPrefix)
               THEN Found(Strip(AfterEquals(line)))
               ELSE FirstId(Tail(lines))

\* the identifier the resolver draws from a workshop.txt answered with 200
parse_marker(text) == FirstId(SplitLines(text))

\* the resolver parses the text it fetched
ParseMarker ==
    /\ markerPc = "fetched"
    /\ markerId' = parse_marker(markerText)
    /\ markerPc' = "parsed"
    /\ UNCHANGED <<markerText, tablevars, resolvevars, rlvars, pipevars>>

(***************************************************************************)
(* The subscriber count of a scraped page (get_workshop_data, after the    *)
(* page is parsed).  A cell text is a sequence of characters and words.    *)
(***************************************************************************)
\* tables of a page, and rows of a table
MaxTables == 2
MaxRows == 2

\* cols[0].text of the rows of the model
Counts == {<<"1">>, <<"3">>, <<SP, "1", ",", "2", SP>>}
\* cols[1].text of the rows of the model
Labels == {<<"Current", SP, "Subscribers">>, <<"Unique", SP, "Visitors">>}
\* row.find_all("td"): rows of two cells, a row of one and a row of three
Rows ==
    {<<c, l>> : c \in Counts, l \in Labels}
        \cup {<<<<"Current", SP, "Subscribers">>>>}
        \cup {<<<<"3">>, <<"Current", SP, "Subscribers">>, <<"1">>>>}
\* a <table>: whether its class is stats_table, and its <tr> rows
Tables ==
    [stats : BOOLEAN, rows : UNION {[1..n -> Rows] : n \in 0..MaxRows}]
Soups == UNION {[1..n -> Tables] : n \in 0..MaxTables}

\* "Subscribers" in cols[1].text
HasSubscribers(text) == \E i \in DOMAIN text : text[i] = "Subscribers"

\* str.replace(",", "")
RemoveCommas(str) == SelectSeq(str, LAMBDA c : c # ",")

\* sub_count = "?"
NoCount == <<"?">>

\* for row in table.find_all("tr"): ... if len(cols) == 2 and "Subscribers" in
\* cols[1].text: sub_count = cols[0].text.strip().replace(",", ""); break
RECURSIVE ScanRows(_, _)
ScanRows(rows, sub) ==
    IF rows = <<>> THEN sub
    ELSE LET cols == Head(rows)
         IN  IF Len(cols) = 2 /\ HasSubscribers(cols[2])
               THEN RemoveCommas(Strip(cols[1]))
               ELSE ScanRows(Tail(rows), sub)

\* for table in soup.find_all("table", class_="stats_table"): the break of the
\* row loop leaves that loop only, the loop over the tables goes on
RECURSIVE ScanTables(_, _)
ScanTables(tables, sub) ==
    IF tables = <<>> THEN sub
    ELSE ScanTables(Tail(tables),
                    IF Head(tables).stats THEN ScanRows(Head(tables).rows, sub) ELSE sub)

\* the scraper scans the tables of the page it parsed
ScanSubscribers ==
    /\ soupPc = "parsed"
    /\ sub_count' = ScanTables(soupTables, NoCount)
    /\ soupPc' = "scanned"
    /\ UNCHANGED <<soupTables, markervars, resolvevars, rlvars, pipevars>>

(***************************************************************************)
(* Data of the catalog builder                                             *)
(***************************************************************************)
RepoNames == 1..NumRepos
\* identifiers are strings of digits
WorkshopIds == {ToString(n) : n \in 1..NumIds}

\* repo["homepage"]: whether it contains "steamcommunity.com", and the digits
\* that re.search(r'id=(\d+)', homepage) finds in it (None: no match)
Homepages ==
    [steam : BOOLEAN, id : {None}] \cup [steam : {TRUE}, id : WorkshopIds]

\* a repository record of the listing API; html_url is one per repository and
\* is identified with the name
Repo(n, h) == [name |-> n, homepage |-> h]

\* what one fetch of workshop.txt yields: None when the GET fails, is not 200 or
\* the file has no line starting with "id=", else the text after the "=" of
\* the first such line, stripped (possibly empty)
MarkerResults == {None, ""} \cup WorkshopIds

\* what soup.find(...) and the table scan can yield on a 200 page
Banner == "https://steamuserimages/preview.jpg"
Video == "https://www.youtube.com/watch?v=abcdefghijk"
Page(subs, title, banner, videos) ==
    [ok |-> TRUE, subs |-> subs, title |-> title, banner |-> banner, videos |-> videos]
\* return "?", None, None, None
Unknown == [ok |-> FALSE]

\* the tuples get_workshop_data can return
ScrapeResults ==
    { Unknown,
      Page("1", "", Banner, <<>>),
      Page("0", "Test Mod", Banner, <<>>),
      Page("1", "Test Mod", Banner, <<Video>>),
      Page("2", "Test Mod", Banner, <<>>),
      Page("1", "Test Mod", None, <<>>),
      Page("N/A", "Test Mod", Banner, <<>>) }

\* subs_str, title, banner, video_links = get_workshop_data(steam_url)
SubsStr(sc) == IF sc.ok THEN sc.subs ELSE "?"
Title(sc) == IF sc.ok THEN sc.title ELSE None
Image(sc) == IF sc.ok THEN sc.banner ELSE None
\* video_links or []
VideosOrEmpty(sc) == IF sc.ok THEN sc.videos ELSE <<>>

\* truth value of an optional string: None and "" are false
Truthy(x) == x # None /\ x # ""
\* banner or ""
OrEmpty(x) == IF Truthy(x) THEN x ELSE ""

\* int(subs_str): the strings it accepts and their values; any other string
\* raises ValueError
IntStrings == {"0", "1", "2"}
ParseInt(str) == CASE str = "0" -> 0 [] str = "1" -> 1 [] str = "2" -> 2

\* a steam_url: absent (None), the homepage kept verbatim, or
\* f"https://steamcommunity.com/sharedfiles/filedetails/?id={workshop_id}"
NoUrl == [kind |-> "None"]
HomepageUrl(h) == [kind |-> "homepage", homepage |-> h]
TemplateUrl(workshop_id) == [kind |-> "template", id |-> workshop_id]

\* what process_mod returns: None, or a mod_data dict
NoMod == <<>>
Mod(mod_data) == <<mod_data>>

\* is_highlight = homepage and "steamcommunity.com" in homepage
IsHighlightHomepage(h) == h.steam

\* the resolver returning no steam_url with the identifier of the homepage
get_workshop_id_from_repo_nourl(repo, main, master) ==
    IF IsHighlightHomepage(repo.homepage) /\ repo.homepage.id # None
      THEN <<repo.homepage.id, TRUE, NoUrl>>
    ELSE IF main # None THEN <<main, FALSE, NoUrl>>
    ELSE IF master # None THEN <<master, FALSE, NoUrl>>
    ELSE <<None, FALSE, NoUrl>>

\* get_workshop_id_from_repo(repo) -> (workshop_id, is_highlight, steam_url),
\* given what the fetches of main/workshop.txt and master/workshop.txt yield
get_workshop_id_from_repo(repo, main, master) ==
    IF IsHighlightHomepage(repo.homepage) /\ repo.homepage.id # None
      THEN <<repo.homepage.id, TRUE, HomepageUrl(repo.homepage)>>
    ELSE IF main # None THEN <<main, FALSE, NoUrl>>
    ELSE IF master # None THEN <<master, FALSE, NoUrl>>
    ELSE <<None, FALSE, NoUrl>>

\* what a GET of workshop.txt is answered with: an exception (timeout,
\* connection error), a status other than 200, or 200 with a text
MarkerFetches ==
    [status : {"error", "404"}, text : {<<>>}] \cup [status : {"200"}, text : Lines]

\* an identifier read from a file, as the string the resolver returns
RECURSIVE IdString(_)
IdString(chars) == IF chars = <<>> THEN "" ELSE Head(chars) \o IdString(Tail(chars))

\* what one fetch yields: None, or the identifier of the first marker line
MarkerYield(f) ==
    IF f.status = "200" /\ parse_marker(f.text) # NotFound
      THEN IdString(parse_marker(f.text)[1])
      ELSE None

\* the homepage holds a Workshop URL with an id: return without any request
ResolveFromHomepage ==
    /\ resPc = "start"
    /\ IsHighlightHomepage(resRepo.homepage) /\ resRepo.homepage.id # None
    /\ resResult' = get_workshop_id_from_repo(resRepo, None, None)
    /\ resPc' = "returned"
    /\ UNCHANGED <<resRepo, resMain, resRequests, markervars, tablevars, rlvars, pipevars>>

\* a resolver that returns after its first fetch, whatever it yielded
FetchMainOnly ==
    /\ resPc = "start"
    /\ ~(IsHighlightHomepage(resRepo.homepage) /\ resRepo.homepage.id # None)
    /\ \E f \in MarkerFetches :
          /\ resRequests' = Append(resRequests, [branch |-> "main", response |-> f])
          /\ resMain' = MarkerYield(f)
          /\ resResult' = get_workshop_id_from_repo(resRepo, MarkerYield(f), None)
          /\ resPc' = "returned"
    /\ UNCHANGED <<resRepo, markervars, tablevars, rlvars, pipevars>>

\* the first try block: GET main/workshop.txt, return the identifier of its
\* first marker line; an exception, another status or no such line falls
\* through to the second try block
FetchMain ==
    /\ resPc = "start"
    /\ ~(IsHighlightHomepage(resRepo.homepage) /\ resRepo.homepage.id # None)
    /\ \E f \in MarkerFetches :
          /\ resRequests' = Append(resRequests, [branch |-> "main", response |-> f])
          /\ resMain' = MarkerYield(f)
          /\ IF MarkerYield(f) # None
               THEN /\ resResult' = get_workshop_id_from_repo(resRepo, MarkerYield(f), None)
                    /\ resPc' = "returned"
               ELSE /\ resPc' = "master"
                    /\ UNCHANGED resResult
    /\ UNCHANGED <<resRepo, markervars, tablevars, rlvars, pipevars>>

\* the second try block: GET master/workshop.txt; whatever it yields, return
FetchMaster ==
    /\ resPc = "master"
    /\ \E f \in MarkerFetches :
          /\ resRequests' = Append(resRequests, [branch |-> "master", response |-> f])
          /\ resResult' = get_workshop_id_from_repo(resRepo, resMain, MarkerYield(f))
    /\ resPc' = "returned"
    /\ UNCHANGED <<resRepo, resMain, markervars, tablevars, rlvars, pipevars>>

\* a count of 0 set when int(subs_str) raises
WithSubsDefault(mod_data, subs_str) ==
    IF subs_str \in IntStrings
      THEN mod_data @@ ("subs" :> ParseInt(subs_str))
      ELSE mod_data @@ ("subs" :> 0)

\* mod_data["subs"] = int(subs_str), inside try/except ValueError
WithSubs(mod_data, subs_str) ==
    IF subs_str \in IntStrings
      THEN mod_data @@ ("subs" :> ParseInt(subs_str))
      ELSE mod_data

\* the dict process_mod builds before the subscriber count is added
ModData(repo, name, steam_url, sc, highlight, workshop_id) ==
    [name |-> name, steam_url |-> steam_url, repo_url |-> repo.name,
     banner |-> OrEmpty(Image(sc)), videos |-> VideosOrEmpty(sc),
     highlight |-> highlight, workshop_id |-> workshop_id, repo_obj |-> repo]

\* process_mod without the title validation of non-highlights
process_mod_untitled(repo, main, master, sc) ==
    LET res == get_workshop_id_from_repo(repo, main, master)
        workshop_id == res[1]
        is_highlight == res[2]
        steam_url == IF res[3] = NoUrl THEN TemplateUrl(workshop_id) ELSE res[3]
    IN  IF ~Truthy(workshop_id) THEN NoMod
        ELSE IF is_highlight
          THEN LET project_name == IF Truthy(Title(sc)) THEN Title(sc) ELSE ToString(repo.name)
                   mod_data == ModData(repo, project_name, steam_url, sc, TRUE, workshop_id)
               IN  IF SubsStr(sc) # "?" /\ Truthy(Title(sc)) /\ Truthy(Image(sc))
                     THEN Mod(WithSubs(mod_data, SubsStr(sc)))
                     ELSE Mod(mod_data)
        ELSE LET mod_data == ModData(repo, Title(sc), steam_url, sc, FALSE, workshop_id)
             IN  IF SubsStr(sc) # "?" /\ Truthy(Image(sc))
                   THEN Mod(WithSubs(mod_data, SubsStr(sc)))
                   ELSE Mod(mod_data)

\* process_mod(repo): None, or the mod_data dict
process_mod(repo, main, master, sc) ==
    LET res == get_workshop_id_from_repo(repo, main, master)
        workshop_id == res[1]
        is_highlight == res[2]
        steam_url == IF res[3] = NoUrl THEN TemplateUrl(workshop_id) ELSE res[3]
    IN  IF ~Truthy(workshop_id) THEN NoMod
        ELSE IF is_highlight
          THEN LET project_name == IF Truthy(Title(sc)) THEN Title(sc) ELSE ToString(repo.name)
                   mod_data == ModData(repo, project_name, steam_url, sc, TRUE, workshop_id)
               IN  IF SubsStr(sc) # "?" /\ Truthy(Title(sc)) /\ Truthy(Image(sc))
                     THEN Mod(WithSubs(mod_data, SubsStr(sc)))
                     ELSE Mod(mod_data)
        ELSE IF ~Truthy(Title(sc)) THEN NoMod
        ELSE LET mod_data == ModData(repo, Title(sc), steam_url, sc, FALSE, workshop_id)
             IN  IF SubsStr(sc) # "?" /\ Truthy(Image(sc))
                   THEN Mod(WithSubs(mod_data, SubsStr(sc)))
                   ELSE Mod(mod_data)

\* x.get("subs", 0)
SubsKey(x) == IF "subs" \in DOMAIN x THEN x.subs ELSE 0

(***************************************************************************)
(* generate_json: sequences, the statistics plan and the new queue         *)
(***************************************************************************)
Range(seq) == {seq[i] : i \in DOMAIN seq}
Min(a, b) == IF a <= b THEN a ELSE b
Max(a, b) == IF a >= b THEN a ELSE b
\* seq[:n]
Take(seq, n) == SubSeq(seq, 1, Min(n, Len(seq)))
\* seq[n:]
Drop(seq, n) == SubSeq(seq, Min(n, Len(seq)) + 1, Len(seq))

\* [mod['repo_url'] for mod in mods]
Urls(ms) == [i \in DOMAIN ms |-> ms[i].repo_url]

\* repo_map = {mod['repo_url']: mod.get('repo_obj') ...}: its keys
RepoMapKeys(ms) == Range(Urls(ms))

\* a file that does not exist, and a file holding data
NoFile == [exists |-> FALSE, data |-> <<>>]
File(data) == [exists |-> TRUE, data |-> data]
\* a file opened with mode "w" whose json.dump has not completed: it exists and
\* holds no complete JSON document, so json.load raises on it
Truncated == [exists |-> TRUE, data |-> <<>>, partial |-> TRUE]

\* load_existing_stats(): the repo_url of every entry of OUTPUT_FILE that has
\* a 'github' value; {} when the file is missing or json.load raises
load_existing_stats(file) ==
    {file.data[i].repo_url : i \in {j \in DOMAIN file.data : "github" \in DOMAIN file.data[j]}}

\* load_queue(): data.get('pending', []), or [] when there is no file or
\* json.load raises
load_queue(file) == file.data

\* Priority 1: the queued URLs that are in repo_map, in queue order
FromQueue(pq, ms) ==
    LET InMap(u) == u \in RepoMapKeys(ms) IN SelectSeq(pq, InMap)

\* Priority 2: repos_without_stats, in catalog order
WithoutStats(ms, existing, rtf) ==
    LET Needs(u) == u \notin existing /\ u \notin Range(rtf) IN SelectSeq(Urls(ms), Needs)

\* the fetch list with the catalog URLs without statistics put before the
\* queued ones
ExtendedCatalogFirst(pq, ms, existing) ==
    LET w == WithoutStats(ms, existing, <<>>)
        InMap(u) == u \in RepoMapKeys(ms) /\ u \notin Range(w)
    IN  w \o SelectSeq(pq, InMap)

\* repos_to_fetch.extend(repos_without_stats[:max(0, GITHUB_API_LIMIT - len(repos_to_fetch))])
Extended(pq, ms, existing) ==
    LET q == FromQueue(pq, ms)
    IN  q \o Take(WithoutStats(ms, existing, q), Max(0, GITHUB_API_LIMIT - Len(q)))

\* the fetch count without the cap of the API limit
FetchCountUncapped(rtf) == Len(rtf)

\* fetch_count = min(len(repos_to_fetch), GITHUB_API_LIMIT)
FetchCount(rtf) == Min(Len(rtf), GITHUB_API_LIMIT)

\* the loop over mods that appends to remaining_queue
RECURSIVE AppendUnfetched(_, _, _, _)
AppendUnfetched(queue, urls, existing, rtf) ==
    IF urls = <<>> THEN queue
    ELSE LET u == Head(urls)
         IN  AppendUnfetched(
                 IF u \notin existing /\ u \notin Range(rtf) /\ u \notin Range(queue)
                   THEN Append(queue, u) ELSE queue,
                 Tail(urls), existing, rtf)

\* a remaining_queue that keeps the queued URLs the run has just requested
RemainingQueueKept(pq, count, ms, existing, rtf) ==
    LET InMap(u) == u \in RepoMapKeys(ms)
    IN  AppendUnfetched(SelectSeq(pq, InMap), Urls(ms), existing, rtf)

\* remaining_queue: pending_queue[fetch_count:] filtered by repo_map, then the
\* catalog URLs without statistics that were not in repos_to_fetch
RemainingQueue(pq, count, ms, existing, rtf) ==
    LET InMap(u) == u \in RepoMapKeys(ms)
    IN  AppendUnfetched(SelectSeq(Drop(pq, count), InMap), Urls(ms), existing, rtf)

\* mod.pop('repo_obj'); mod.pop('workshop_id'); mod['github'] = ... if cached
Finalized(mod, existing) ==
    LET kept == [f \in (DOMAIN mod) \ {"repo_obj", "workshop_id"} |-> mod[f]]
    IN  IF mod.repo_url \in existing THEN kept @@ ("github" :> "stats") ELSE kept

\* a sort by subs, descending, that sorts ascending and reverses the result
RECURSIVE InsertAscending(_, _)
InsertAscending(sorted, x) ==
    IF sorted = <<>> THEN <<x>>
    ELSE IF SubsKey(x) < SubsKey(Head(sorted)) THEN <<x>> \o sorted
    ELSE <<Head(sorted)>> \o InsertAscending(Tail(sorted), x)

RECURSIVE SortAscending(_)
SortAscending(seq) ==
    IF seq = <<>> THEN <<>>
    ELSE InsertAscending(SortAscending(SubSeq(seq, 1, Len(seq) - 1)), seq[Len(seq)])

SortReversed(seq) ==
    LET asc == SortAscending(seq) IN [i \in DOMAIN asc |-> asc[Len(asc) + 1 - i]]

\* list.sort is stable, also with reverse=True: x goes after every element
\* whose key is at least its own
RECURSIVE InsertDescending(_, _)
InsertDescending(sorted, x) ==
    IF sorted = <<>> THEN <<x>>
    ELSE IF SubsKey(x) > SubsKey(Head(sorted)) THEN <<x>> \o sorted
    ELSE <<Head(sorted)>> \o InsertDescending(Tail(sorted), x)

\* mods.sort(key=lambda x: x.get("subs", 0), reverse=True)
RECURSIVE SortBySubs(_)
SortBySubs(seq) ==
    IF seq = <<>> THEN <<>>
    ELSE InsertDescending(SortBySubs(SubSeq(seq, 1, Len(seq) - 1)), seq[Len(seq)])

\* the dedup test of both passes, without the seen-set test
IsNewUnchecked(res, seen) == res # NoMod

\* if mod_data and mod_data['workshop_id'] not in seen_workshop_ids
IsNew(res, seen) == res # NoMod /\ res[1].workshop_id \notin seen

(***************************************************************************)
(* A run of the script: get_repos(), then generate_json(repos)             *)
(***************************************************************************)
diskvars == <<fileMods, fileQueue>>
passvars == <<mods, seen_workshop_ids, tasks, running, finished, taskLog>>
statvars == <<existing_github_stats, pending_queue, repos_to_fetch, fetch_count,
              fetch_idx, apiRequests, fetchedOk, statsAtLoad>>

\* highlight_repos, and remaining_repos = [repo for repo in repos if repo not in highlight_repos]
IsHighlightRepo(repo) == IsHighlightHomepage(repo.homepage)
IsRemainingRepo(repo) == ~IsHighlightHomepage(repo.homepage)

\* repos = get_repos(): the listing API answers with the repositories, each
\* with a homepage drawn from hs
GetRepos(hs) ==
    /\ phase = "get_repos"
    /\ \E h \in [RepoNames -> hs] :
         repos' = [n \in RepoNames |-> Repo(n, h[n])]
    /\ phase' = "generate_json"
    /\ UNCHANGED <<run, presorted, prevFull, passvars, statvars, diskvars, rlvars, unitvars>>

\* a failure of the enumeration that comes after OUTPUT_FILE was opened for
\* writing
GetReposFailsLate ==
    /\ phase = "get_repos"
    /\ phase' = "aborted"
    /\ fileMods' = Truncated
    /\ UNCHANGED <<run, repos, presorted, prevFull, passvars, statvars, fileQueue, rlvars, unitvars>>

\* get_repos() raises: a page request is not 200, or requests.get raises; the
\* exception is not caught and the script ends
GetReposFails ==
    /\ phase = "get_repos"
    /\ phase' = "aborted"
    /\ UNCHANGED <<run, repos, presorted, prevFull, passvars, statvars, diskvars, rlvars, unitvars>>

\* generate_json up to the submission of the first pass: the cache and the
\* queue are loaded, the highlight repos are submitted to the executor
StartFirstPass ==
    /\ phase = "generate_json"
    /\ mods' = <<>>
    /\ seen_workshop_ids' = {}
    /\ existing_github_stats' = load_existing_stats(fileMods)
    /\ statsAtLoad' = load_existing_stats(fileMods)
    /\ pending_queue' = load_queue(fileQueue)
    /\ tasks' = SelectSeq(repos, IsHighlightRepo)
    /\ phase' = "pass1"
    /\ UNCHANGED <<run, repos, presorted, prevFull, running, finished, taskLog,
                   repos_to_fetch, fetch_count, fetch_idx, apiRequests, fetchedOk,
                   diskvars, rlvars, unitvars>>

\* a worker thread of the pool takes the next submitted task
WorkerStart ==
    /\ phase \in {"pass1", "pass2"}
    /\ tasks # <<>>
    /\ Cardinality(running) < STEAM_MAX_WORKERS
    /\ running' = running \cup {Head(tasks)}
    /\ tasks' = Tail(tasks)
    /\ UNCHANGED <<run, phase, repos, presorted, prevFull, mods, seen_workshop_ids,
                   finished, taskLog, statvars, diskvars, rlvars, unitvars>>

\* the scrape of a task that returned before calling get_workshop_data
NotCalled == [called |-> FALSE]

\* the worker runs process_mod(repo) to its end.  The fetch of
\* main/workshop.txt is made unless the homepage gave the identifier and
\* yields a value of ms; the fetch of master/workshop.txt is made when the
\* first one returned nothing; get_workshop_data is called when an identifier
\* was resolved and returns a tuple of ss.  The future completes, with the
\* value process_mod returned or, when an exception escaped process_mod, with
\* that exception.
WorkerFinish(ms, ss) ==
    /\ \E repo \in running :
       \/ LET done == [repo |-> repo, id |-> None, scrape |-> NotCalled,
                       result |-> NoMod, pass |-> phase, raised |-> TRUE]
          IN  /\ finished' = Append(finished, done)
              /\ taskLog' = Append(taskLog, done)
              /\ running' = running \ {repo}
       \/
         LET byHomepage == IsHighlightHomepage(repo.homepage) /\ repo.homepage.id # None
         IN  \E main \in IF byHomepage THEN {None} ELSE ms :
             \E master \in IF byHomepage \/ main # None THEN {None} ELSE ms :
               LET workshop_id == get_workshop_id_from_repo(repo, main, master)[1]
               IN  \E sc \in IF Truthy(workshop_id) THEN ss ELSE {Unknown} :
                     LET done == [repo |-> repo,
                                  id |-> workshop_id,
                                  scrape |-> IF Truthy(workshop_id) THEN sc ELSE NotCalled,
                                  result |-> process_mod(repo, main, master, sc),
                                  pass |-> phase,
                                  raised |-> FALSE]
                     IN  /\ finished' = Append(finished, done)
                         /\ taskLog' = Append(taskLog, done)
                         /\ running' = running \ {repo}
    /\ UNCHANGED <<run, phase, repos, presorted, prevFull, mods, seen_workshop_ids,
                   tasks, statvars, diskvars, rlvars, unitvars>>

\* one iteration of `for future in as_completed(future_to_repo)`, in either
\* pass; future.result() re-raises the exception of the task, which the except
\* clause of the loop body handles
ConsumeFuture ==
    /\ phase \in {"pass1", "pass2"}
    /\ finished # <<>>
    /\ LET res == Head(finished).result
       IN  IF ~Head(finished).raised /\ IsNew(res, seen_workshop_ids)
             THEN /\ seen_workshop_ids' = seen_workshop_ids \cup {res[1].workshop_id}
                  /\ mods' = Append(mods, res[1])
             ELSE UNCHANGED <<seen_workshop_ids, mods>>
    /\ finished' = Tail(finished)
    /\ UNCHANGED <<run, phase, repos, presorted, prevFull, tasks, running, taskLog,
                   statvars, diskvars, rlvars, unitvars>>

\* the second pass submitted as soon as the first-pass tasks have been taken
\* by a worker, without waiting for them to complete and be handled
StartSecondPassEarly ==
    /\ phase = "pass1"
    /\ tasks = <<>>
    /\ tasks' = SelectSeq(repos, IsRemainingRepo)
    /\ phase' = "pass2"
    /\ UNCHANGED <<run, repos, presorted, prevFull, mods, seen_workshop_ids, running,
                   finished, taskLog, statvars, diskvars, rlvars, unitvars>>

\* every future of the first pass has been handled and the executor has shut
\* down; remaining_repos are submitted to a new executor
StartSecondPass ==
    /\ phase = "pass1"
    /\ tasks = <<>> /\ running = {} /\ finished = <<>>
    /\ tasks' = SelectSeq(repos, IsRemainingRepo)
    /\ phase' = "pass2"
    /\ UNCHANGED <<run, repos, presorted, prevFull, mods, seen_workshop_ids, running,
                   finished, taskLog, statvars, diskvars, rlvars, unitvars>>

\* the second pass is over; repos_to_fetch and fetch_count are computed
PlanStats ==
    /\ phase = "pass2"
    /\ tasks = <<>> /\ running = {} /\ finished = <<>>
    /\ LET ext == Extended(pending_queue, mods, existing_github_stats)
       IN  /\ fetch_count' = FetchCount(ext)
           /\ repos_to_fetch' = Take(ext, FetchCount(ext))
    /\ fetch_idx' = 1
    /\ phase' = "fetch"
    /\ UNCHANGED <<run, repos, presorted, prevFull, passvars, existing_github_stats,
                   pending_queue, apiRequests, fetchedOk, statsAtLoad, diskvars, rlvars, unitvars>>

\* what the GET of get_github_stats can do
StatsResponses == {"200", "404", "other", "error"}

\* an iteration whose fresh statistics replace the cache instead of joining it
FetchStatsForgetting(rs) ==
    /\ phase = "fetch"
    /\ fetch_idx <= Len(repos_to_fetch)
    /\ LET repo_url == repos_to_fetch[fetch_idx]
       IN  /\ apiRequests' = Append(apiRequests, repo_url)
           /\ \E r \in rs :
                IF r = "200"
                  THEN /\ existing_github_stats' = {repo_url}
                       /\ fetchedOk' = fetchedOk \cup {repo_url}
                  ELSE UNCHANGED <<existing_github_stats, fetchedOk>>
    /\ fetch_idx' = fetch_idx + 1
    /\ UNCHANGED <<run, phase, repos, presorted, prevFull, passvars, pending_queue,
                   repos_to_fetch, fetch_count, statsAtLoad, diskvars, rlvars, unitvars>>

\* one iteration of `for idx, repo_url in enumerate(repos_to_fetch, 1)`:
\* stats = get_github_stats(repo_obj), one GET whose outcome is one of rs,
\* cached when it answers 200
FetchStats(rs) ==
    /\ phase = "fetch"
    /\ fetch_idx <= Len(repos_to_fetch)
    /\ LET repo_url == repos_to_fetch[fetch_idx]
       IN  /\ apiRequests' = Append(apiRequests, repo_url)
           /\ \E r \in rs :
                IF r = "200"
                  THEN /\ existing_github_stats' = existing_github_stats \cup {repo_url}
                       /\ fetchedOk' = fetchedOk \cup {repo_url}
                  ELSE UNCHANGED <<existing_github_stats, fetchedOk>>
    /\ fetch_idx' = fetch_idx + 1
    /\ UNCHANGED <<run, phase, repos, presorted, prevFull, passvars, pending_queue,
                   repos_to_fetch, fetch_count, statsAtLoad, diskvars, rlvars, unitvars>>

\* remaining_queue is computed and save_queue opens QUEUE_FILE for writing,
\* which truncates it
OpenQueue ==
    /\ phase = "fetch"
    /\ fetch_idx > Len(repos_to_fetch)
    /\ fileQueue' = Truncated
    /\ phase' = "save_queue"
    /\ UNCHANGED <<run, repos, presorted, prevFull, passvars, statvars, fileMods, rlvars, unitvars>>

\* json.dump(queue_data, f) completes and the file is closed
SaveQueue ==
    /\ phase = "save_queue"
    /\ fileQueue' = File(RemainingQueue(pending_queue, fetch_count, mods,
                                        existing_github_stats, repos_to_fetch))
    /\ phase' = "finalize"
    /\ UNCHANGED <<run, repos, presorted, prevFull, passvars, statvars, fileMods, rlvars, unitvars>>

\* temporary fields are removed, statistics attached, mods sorted in place,
\* and OUTPUT_FILE is opened for writing, which truncates it
OpenOutput ==
    /\ phase = "finalize"
    /\ LET final == [i \in DOMAIN mods |-> Finalized(mods[i], existing_github_stats)]
       IN  /\ presorted' = final
           /\ mods' = SortBySubs(final)
    /\ fileMods' = Truncated
    /\ phase' = "writing"
    /\ UNCHANGED <<run, repos, prevFull, seen_workshop_ids, tasks, running, finished,
                   taskLog, statvars, fileQueue, rlvars, unitvars>>

\* json.dump(mods, f) completes and the file is closed
WriteOutput ==
    /\ phase = "writing"
    /\ fileMods' = File(mods)
    /\ phase' = "done"
    /\ UNCHANGED <<run, repos, presorted, prevFull, passvars, statvars, fileQueue, rlvars, unitvars>>

\* the process is terminated from outside while the run is under way; what
\* is on disk stays as it is
Terminate ==
    /\ phase \notin {"done", "aborted", "killed"}
    /\ phase' = "killed"
    /\ UNCHANGED <<run, repos, presorted, prevFull, passvars, statvars, diskvars, rlvars, unitvars>>

\* the run fetched the statistics of every entry of its catalog
FullFetch == phase = "done" /\ RepoMapKeys(mods) \subseteq fetchedOk

\* a new process: only the two files survive
NewProcess ==
    /\ phase \in {"done", "aborted", "killed"}
    /\ prevFull' = FullFetch
    /\ phase' = "get_repos"
    /\ repos' = <<>>
    /\ mods' = <<>> /\ seen_workshop_ids' = {} /\ tasks' = <<>> /\ running' = {}
    /\ finished' = <<>> /\ taskLog' = <<>>
    /\ existing_github_stats' = {} /\ pending_queue' = <<>> /\ repos_to_fetch' = <<>>
    /\ fetch_count' = 0 /\ fetch_idx' = 1 /\ apiRequests' = <<>> /\ fetchedOk' = {}
    /\ statsAtLoad' = {} /\ presorted' = <<>>
    /\ UNCHANGED <<diskvars, rlvars, unitvars>>

\* the workflow starts the script again, up to max runs
StartRun(max) ==
    /\ run < max
    /\ run' = run + 1
    /\ NewProcess

\* the workflow starts the script again, run after run without end; the runs
\* are not counted
Rerun ==
    /\ run' = run
    /\ NewProcess

InitLimiter ==
    /\ clock = 0
    /\ requests = <<>>
    /\ lock = 0
    /\ pc = [t \in Threads |-> "idle"]
    /\ attempt = [t \in Threads |-> 0]
    /\ wakeAt = [t \in Threads |-> 0]
    /\ backoff = [t \in Threads |-> 0]
    /\ outcome = [t \in Threads |-> None]
    /\ calls = 0
    /\ callId = [t \in Threads |-> 0]
    /\ ret = [t \in Threads |-> None]
    /\ recorded = <<>>
    /\ steamGets = <<>>

\* the first run: neither file exists
InitRun ==
    /\ run = 1
    /\ phase = "get_repos"
    /\ repos = <<>>
    /\ mods = <<>> /\ seen_workshop_ids = {} /\ tasks = <<>> /\ running = {}
    /\ finished = <<>> /\ taskLog = <<>>
    /\ existing_github_stats = {} /\ pending_queue = <<>> /\ repos_to_fetch = <<>>
    /\ fetch_count = 0 /\ fetch_idx = 1 /\ apiRequests = <<>> /\ fetchedOk = {}
    /\ statsAtLoad = {} /\ presorted = <<>> /\ prevFull = FALSE
    /\ fileMods = NoFile /\ fileQueue = NoFile

\* no marker text is being parsed
InitNoMarker ==
    /\ markerText = <<>> /\ markerPc = "idle" /\ markerId = NotFound

InitNoSoup ==
    /\ soupTables = <<>> /\ soupPc = "idle" /\ sub_count = NoCount

InitNoResolve ==
    /\ resRepo = Repo(1, [steam |-> FALSE, id |-> None]) /\ resPc = "idle"
    /\ resMain = None /\ resRequests = <<>> /\ resResult = <<None, FALSE, NoUrl>>

Init == InitLimiter /\ InitRun /\ InitNoMarker /\ InitNoSoup /\ InitNoResolve

\* a page has been parsed and its tables are about to be scanned
InitSoup ==
    /\ InitLimiter /\ InitRun /\ InitNoMarker /\ InitNoResolve
    /\ soupTables \in Soups /\ soupPc = "parsed" /\ sub_count = NoCount

\* get_workshop_id_from_repo has been called with a repository
InitResolve ==
    /\ InitLimiter /\ InitRun /\ InitNoMarker /\ InitNoSoup
    /\ resRepo \in {Repo(1, h) : h \in Homepages} /\ resPc = "start"
    /\ resMain = None /\ resRequests = <<>> /\ resResult = <<None, FALSE, NoUrl>>

\* a workshop.txt has been fetched, with any of the marker texts
InitMarker ==
    /\ InitLimiter /\ InitRun /\ InitNoSoup /\ InitNoResolve
    /\ markerText \in MarkerTexts /\ markerPc = "fetched" /\ markerId = NotFound

\* one run, every homepage, marker and scrape outcome; the statistics
\* requests succeed
Next ==
    \/ GetRepos(Homepages)
    \/ GetReposFails
    \/ StartFirstPass
    \/ WorkerStart
    \/ WorkerFinish(MarkerResults, ScrapeResults)
    \/ ConsumeFuture
    \/ StartSecondPass
    \/ PlanStats
    \/ FetchStats({"200"})
    \/ OpenQueue
    \/ SaveQueue
    \/ OpenOutput
    \/ WriteOutput

Spec == Init /\ [][Next]_vars

\* the inputs of the runs in succession: no repository has a homepage, each
\* marker file is missing or names the repository's own listing, and a scrape
\* fails or returns a full page
PlainHomepages == {[steam |-> FALSE, id |-> None]}
FullPages == {Unknown, Page("1", "Test Mod", Banner, <<>>)}

\* the marker of the running repository, when it has one
OwnMarker == {None} \cup {ToString(r.name) : r \in running}

NextRuns ==
    \/ GetRepos(PlainHomepages)
    \/ GetReposFails
    \/ StartFirstPass
    \/ WorkerStart
    \/ WorkerFinish(OwnMarker, FullPages)
    \/ ConsumeFuture
    \/ StartSecondPass
    \/ PlanStats
    \/ FetchStats(StatsResponses)
    \/ OpenQueue
    \/ SaveQueue
    \/ OpenOutput
    \/ WriteOutput
    \/ Terminate
    \/ StartRun(MaxRuns)

SpecRuns == Init /\ [][NextRuns]_vars

\* one run from the call of get_repos on.  Every step of generate_json ends:
\* its GETs carry timeout=10 or timeout=15, its sleeps and retries are bounded
\* and the limiter returns, so each of its steps is taken once it is enabled.
\* The GET of get_repos carries no timeout: requests waits for the answer
\* without limit, and nothing obliges the answer (GetRepos, GetReposFails) to
\* come.
NextOneRun ==
    \/ GetRepos(PlainHomepages)
    \/ GetReposFails
    \/ StartFirstPass
    \/ WorkerStart
    \/ WorkerFinish(OwnMarker, FullPages)
    \/ ConsumeFuture
    \/ StartSecondPass
    \/ PlanStats
    \/ FetchStats(StatsResponses)
    \/ OpenQueue
    \/ SaveQueue
    \/ OpenOutput
    \/ WriteOutput

SpecOneRun ==
    /\ Init /\ [][NextOneRun]_vars
    /\ WF_vars(StartFirstPass)
    /\ WF_vars(WorkerStart)
    /\ WF_vars(WorkerFinish(OwnMarker, FullPages))
    /\ WF_vars(ConsumeFuture)
    /\ WF_vars(StartSecondPass)
    /\ WF_vars(PlanStats)
    /\ WF_vars(FetchStats(StatsResponses))
    /\ WF_vars(OpenQueue)
    /\ WF_vars(SaveQueue)
    /\ WF_vars(OpenOutput)
    /\ WF_vars(WriteOutput)

\* runs without end: the workflow keeps starting the script, every run
\* enumerates the repositories and is left to complete
NextForever ==
    \/ GetRepos(PlainHomepages)
    \/ StartFirstPass
    \/ WorkerStart
    \/ WorkerFinish(OwnMarker, FullPages)
    \/ ConsumeFuture
    \/ StartSecondPass
    \/ PlanStats
    \/ FetchStats(StatsResponses)
    \/ OpenQueue
    \/ SaveQueue
    \/ OpenOutput
    \/ WriteOutput
    \/ Rerun

SpecForever ==
    /\ Init /\ [][NextForever]_vars
    /\ WF_vars(GetRepos(PlainHomepages))
    /\ WF_vars(StartFirstPass)
    /\ WF_vars(WorkerStart)
    /\ WF_vars(WorkerFinish(OwnMarker, FullPages))
    /\ WF_vars(ConsumeFuture)
    /\ WF_vars(StartSecondPass)
    /\ WF_vars(PlanStats)
    /\ WF_vars(FetchStats(StatsResponses))
    /\ WF_vars(OpenQueue)
    /\ WF_vars(SaveQueue)
    /\ WF_vars(OpenOutput)
    /\ WF_vars(WriteOutput)
    /\ WF_vars(Rerun)

\* threads calling the scraper; the catalog builder does not move
NextRL ==
    \/ Tick
    \/ \E t \in Threads :
         \/ CallScraper(t)
         \/ AcquireEnter(t)
         \/ AcquireWake(t)
         \/ AcquireRecord(t)
         \/ ScraperGet(t, Responses)
         \/ ScraperVideos(t)

SpecRL == Init /\ [][NextRL]_vars

\* threads whose every GET is answered 429, so that each call of the scraper
\* calls acquire() max_retries times; time advances while a thread sleeps, the
\* lock is granted fairly and a thread that can go on does
NextAcquire ==
    \/ TickWaited
    \/ \E t \in Threads :
         \/ CallScraper(t)
         \/ AcquireEnter(t)
         \/ AcquireWake(t)
         \/ AcquireRecord(t)
         \/ ScraperGet(t, {"429"})

SpecAcquire ==
    /\ Init /\ [][NextAcquire]_vars
    /\ WF_vars(TickWaited)
    /\ \A t \in Threads :
          /\ SF_vars(AcquireEnter(t))
          /\ WF_vars(AcquireWake(t))
          /\ WF_vars(AcquireRecord(t))

\* the parsing of one fetched marker file
NextMarker == ParseMarker

SpecMarker == InitMarker /\ [][NextMarker]_vars

\* the scan of the tables of one parsed page
NextSoup == ScanSubscribers

SpecSoup == InitSoup /\ [][NextSoup]_vars

\* one call of get_workshop_id_from_repo
NextResolve == ResolveFromHomepage \/ FetchMain \/ FetchMaster

SpecResolve == InitResolve /\ [][NextResolve]_vars

(***************************************************************************)
(* Claims about the RateLimiter and the scraper, checked under SpecRL.     *)
(***************************************************************************)
\* C1: for a limiter with limit N and window W, the timestamp recorded by the
\* (i+N)-th acquire() minus the timestamp recorded by the i-th is at least W,
\* for every i and whatever the interleaving of the calling threads.
C1_WindowHolds ==
    \A i \in DOMAIN recorded : \A j \in DOMAIN recorded :
        j = i + MaxRequests => recorded[j] - recorded[i] >= Window

\* C1 witness: more than N requests are recorded and the last one was recorded
\* by a caller that had to sleep inside acquire().
C1_Witness ==
    /\ Len(recorded) > MaxRequests
    /\ \E t \in Threads : pc[t] = "l308" /\ wakeAt[t] > 0 /\ wakeAt[t] <= recorded[Len(recorded)]

\* the GETs of the history sent in the window of W ticks that ends with GET i
GetsInWindow(i) ==
    {j \in DOMAIN steamGets :
        j <= i /\ steamGets[i].at - steamGets[j].at < Window}

\* C2: every GET sent to the listing page is preceded by its own acquire(),
\* each scrape attempt sends exactly one GET, and so no window of W ticks
\* holds more than N GETs.
C2_OneLimitedGetPerAttempt ==
    /\ \A i \in DOMAIN steamGets : steamGets[i].limited
    /\ \A i \in DOMAIN steamGets : \A j \in DOMAIN steamGets :
          (i # j /\ steamGets[i].call = steamGets[j].call)
              => steamGets[i].attempt # steamGets[j].attempt
    /\ \A i \in DOMAIN steamGets : Cardinality(GetsInWindow(i)) <= MaxRequests

\* the rate-limited GETs that call c of get_workshop_data has sent
AttemptsOf(c) == {i \in DOMAIN steamGets : steamGets[i].call = c /\ steamGets[i].limited}

\* C11: one call of get_workshop_data makes at most max_retries (3) attempts
\* and never raises: whatever each attempt's outcome (429, other non-200,
\* timeout, other exception, unparsable page), a call that has ended has
\* returned a tuple, and it is the fully-unknown tuple when its last attempt
\* failed too.
C11_ScraperReturns ==
    /\ \A c \in 1..MaxCalls : Cardinality(AttemptsOf(c)) <= max_retries
    /\ \A t \in Threads :
          /\ attempt[t] < max_retries
          /\ (pc[t] = "idle" /\ callId[t] # 0) =>
                /\ ret[t] \in {"unknown", "page"}
                /\ outcome[t] # "200" => ret[t] = "unknown"

\* a call has returned the unknown tuple after three attempts, the last of
\* which got a page that could not be parsed
C11_Witness ==
    \E t \in Threads :
        /\ pc[t] = "idle" /\ ret[t] = "unknown"
        /\ outcome[t] = "unparsable"
        /\ Cardinality(AttemptsOf(callId[t])) = max_retries

\* C19: after failed attempt k (counted from 1) of a call the scraper backs
\* off 30*k seconds on HTTP 429 and 5*k seconds on another non-200 status, a
\* timeout or an exception, and a further attempt follows every backoff: the
\* call that has ended after its last attempt has not slept.
C19_BackoffThenRetry ==
    \A t \in Threads :
        outcome[t] \notin {None, "200"} =>
            IF pc[t] = "l302"
              THEN backoff[t] = (IF outcome[t] = "429" THEN 30 ELSE 5) * attempt[t]
              ELSE pc[t] = "idle" /\ backoff[t] = 0

(***************************************************************************)
(* Claims about one run of the catalog builder, checked under Spec.        *)
(***************************************************************************)
\* the tasks of the log whose futures the main thread has handled
Consumed == 1..(Len(taskLog) - Len(finished))

\* the place in the log of the task of repository n
LogIndex(n) == CHOOSE k \in DOMAIN taskLog : taskLog[k].repo.name = n

\* the entries of the catalog that belong to repository n
EntriesOf(n) == {i \in DOMAIN mods : mods[i].repo_url = n}

\* C3: no two catalog entries share a ListingIdentifier; of the candidates that
\* resolve to one identifier and yield an entry, the catalog holds exactly the
\* one whose task completed first, so an entry of pass 1 is never displaced
\* by a candidate of pass 2.
C3_FirstCompletedWins ==
    /\ \A i \in DOMAIN mods : \A j \in DOMAIN mods :
          i # j => taskLog[LogIndex(mods[i].repo_url)].id
                     # taskLog[LogIndex(mods[j].repo_url)].id
    /\ \A i \in DOMAIN mods :
          LET k == LogIndex(mods[i].repo_url)
          IN  \A k2 \in 1..(k - 1) :
                ~(taskLog[k2].result # NoMod /\ taskLog[k2].id = taskLog[k].id)
    /\ \A k \in Consumed :
          taskLog[k].result # NoMod
            => \E i \in DOMAIN mods :
                 taskLog[LogIndex(mods[i].repo_url)].id = taskLog[k].id

\* C3 witness: a candidate of pass 2 and an earlier candidate of pass 1 resolved
\* to one identifier, each yielding an entry, and the run has ended with a
\* catalog of two entries.
C3_Witness ==
    /\ phase = "done"
    /\ Len(mods) = 2
    /\ \E k1 \in DOMAIN taskLog : \E k2 \in DOMAIN taskLog :
          /\ taskLog[k1].pass = "pass1" /\ taskLog[k2].pass = "pass2"
          /\ taskLog[k1].result # NoMod /\ taskLog[k2].result # NoMod
          /\ taskLog[k1].id = taskLog[k2].id

\* get_workshop_data returned nothing at all
IsEmptyScrape(sc) ==
    /\ SubsStr(sc) = "?"
    /\ ~Truthy(Title(sc))
    /\ ~Truthy(Image(sc))
    /\ VideosOrEmpty(sc) = <<>>

\* C4: a Featured candidate (homepage matching the listing-URL pattern) with a
\* resolvable identifier that no other candidate resolves to, and whose scrape
\* returns entirely empty data, yields exactly one catalog entry, with empty
\* banner, empty video list and no subscriber count.
C4_FeaturedRetained ==
    \A k \in Consumed :
        LET e == taskLog[k]
        IN  ( /\ IsHighlightRepo(e.repo)
              /\ Truthy(e.id)
              /\ IsEmptyScrape(e.scrape)
              /\ \A k2 \in DOMAIN taskLog : k2 # k => taskLog[k2].id # e.id )
            => /\ Cardinality(EntriesOf(e.repo.name)) = 1
               /\ \A i \in EntriesOf(e.repo.name) :
                     /\ mods[i].banner = ""
                     /\ mods[i].videos = <<>>
                     /\ "subs" \notin DOMAIN mods[i]

\* C5: a Discovered candidate whose scrape returns an absent or empty title
\* yields no catalog entry, whatever the other scraped fields are.
C5_DiscoveredExcluded ==
    \A k \in DOMAIN taskLog :
        LET e == taskLog[k]
        IN  (~IsHighlightRepo(e.repo) /\ Truthy(e.id) /\ ~Truthy(Title(e.scrape)))
            => e.result = NoMod /\ EntriesOf(e.repo.name) = {}

\* C5 witness: a Discovered candidate with a resolved identifier got a page
\* with a banner and a count but an empty title, and the run has ended.
C5_Witness ==
    /\ phase = "done"
    /\ \E k \in DOMAIN taskLog :
          /\ ~IsHighlightRepo(taskLog[k].repo)
          /\ taskLog[k].id \in WorkshopIds
          /\ taskLog[k].scrape = Page("1", "", Banner, <<>>)

\* the place of the entry of repository n in a list of entries
PlaceOf(list, n) == CHOOSE i \in DOMAIN list : list[i].repo_url = n

\* C10: the written artifact holds the entries of the catalog ordered by
\* subscriber count descending, an absent count ordered as 0, and entries with
\* equal counts are in the order they had before the sort.
C10_SortedStable ==
    phase = "done" =>
        LET out == fileMods.data
        IN  /\ Len(out) = Len(presorted)
            /\ Range(out) = Range(presorted)
            /\ \A i \in DOMAIN out : \A j \in DOMAIN out :
                  i < j =>
                    /\ SubsKey(out[i]) >= SubsKey(out[j])
                    /\ SubsKey(out[i]) = SubsKey(out[j])
                         => PlaceOf(presorted, out[i].repo_url)
                              < PlaceOf(presorted, out[j].repo_url)

\* C10 witness: three entries were written, the sort moved some of them, and an
\* entry without a count stands before one with count 0.
C10_Witness ==
    /\ phase = "done"
    /\ Len(fileMods.data) = 3
    /\ fileMods.data # presorted
    /\ \E i \in 1..2 :
          /\ "subs" \notin DOMAIN fileMods.data[i]
          /\ "subs" \in DOMAIN fileMods.data[i + 1]
          /\ fileMods.data[i + 1].subs = 0

(***************************************************************************)
(* Claims about the statistics queue, checked under SpecRuns.              *)
(***************************************************************************)
\* the URLs of the written artifact whose entries have no GitHub statistics
LackingStats ==
    {fileMods.data[i].repo_url :
        i \in {j \in DOMAIN fileMods.data : "github" \notin DOMAIN fileMods.data[j]}}

\* C6: at the end of every run, every URL of the persisted queue is the URL
\* of an entry of the catalog just written that has no statistics, and no URL
\* whose statistics were fetched in the run is in the queue.
C6_QueueLacksStats ==
    phase = "done" =>
        /\ Range(fileQueue.data) \subseteq LackingStats
        /\ Range(fileQueue.data) \cap fetchedOk = {}

\* C7: the queue persisted at the end of a run holds every catalog URL that
\* lacks statistics after the fetch round, each exactly once; so a URL whose
\* fetch failed in the run is in the new queue.
C7_QueueHoldsAllLacking ==
    phase = "done" =>
        /\ LackingStats \subseteq Range(fileQueue.data)
        /\ Cardinality(Range(fileQueue.data)) = Len(fileQueue.data)

\* C8: a run that fetches the statistics of every entry of its catalog persists
\* an empty queue, whatever the prior queue held, and the run after it sends
\* no statistics request for a repository that already has statistics.
C8_QueueIdempotent ==
    /\ (phase = "done" /\ RepoMapKeys(mods) \subseteq fetchedOk
           /\ Len(mods) <= GITHUB_API_LIMIT)
          => fileQueue.data = <<>>
    /\ prevFull => Range(apiRequests) \cap statsAtLoad = {}

\* C9: a run sends at most GITHUB_API_LIMIT requests to the repository-metadata
\* endpoint: one, never repeated, for each URL of the truncated priority list
\* in its order, and none for any other URL.
C9_RequestsWithinBudget ==
    /\ Len(apiRequests) <= GITHUB_API_LIMIT
    /\ Cardinality(Range(apiRequests)) = Len(apiRequests)
    /\ phase = "fetch" => apiRequests = Take(repos_to_fetch, fetch_idx - 1)
    /\ phase \in {"save_queue", "finalize", "writing", "done"} => apiRequests = repos_to_fetch

\* C9 witness: the loaded queue held more catalog URLs than the budget, and the
\* run has sent its requests, as many as the budget.
C9_Witness ==
    /\ phase = "done"
    /\ Len(FromQueue(pending_queue, mods)) > GITHUB_API_LIMIT
    /\ Len(apiRequests) = GITHUB_API_LIMIT

\* C12: when the repository enumeration fails the run aborts before any
\* resolve, scrape or statistics work has started and before any file is
\* written: the step that aborts the run, and every step until the next run
\* starts, leaves OUTPUT_FILE and QUEUE_FILE as the previous run left them.
C12_AbortLeavesFiles ==
    /\ [](phase = "aborted" =>
            /\ tasks = <<>> /\ running = {} /\ finished = <<>> /\ taskLog = <<>>
            /\ mods = <<>> /\ apiRequests = <<>> /\ fetchedOk = {})
    /\ [][(phase = "aborted" \/ phase' = "aborted")
            => /\ fileMods' = fileMods /\ fileQueue' = fileQueue
               /\ phase' \in {"aborted", "get_repos"}]_vars

\* C12 witness: the enumeration of a later run failed while both files of an
\* earlier run, a catalog with entries and a non-empty queue, were on disk.
C12_Witness ==
    /\ phase = "aborted" /\ run > 1
    /\ fileMods.exists /\ fileMods.data # <<>>
    /\ fileQueue.exists /\ fileQueue.data # <<>>

\* C13: OUTPUT_FILE is only ever replaced as a whole: a run that has ended,
\* whether it completed, failed or was terminated from outside at any point,
\* has left on disk a complete artifact (the previous one or the new one) or
\* no artifact, never a partial or empty file.
C13_OutputReplacedWhole ==
    phase \in {"done", "aborted", "killed"} => "partial" \notin DOMAIN fileMods

(***************************************************************************)
(* Claims about the entries of one run, checked under Spec.                *)
(***************************************************************************)
\* the scrape of the task of the repository that entry m belongs to
ScrapeOf(m) == taskLog[LogIndex(m.repo_url)].scrape

\* entry m carries the count parsed from its page when the page gave an
\* integer count, a title and a banner, and carries no count otherwise
CountAsScraped(m) ==
    LET sc == ScrapeOf(m)
        full == /\ SubsStr(sc) \in IntStrings
                /\ Truthy(Title(sc))
                /\ Truthy(Image(sc))
    IN  /\ ("subs" \in DOMAIN m) <=> full
        /\ ("subs" \in DOMAIN m) => m.subs = ParseInt(SubsStr(sc))

\* C14: a catalog entry carries a subscriber count only if its scrape returned
\* a well-formed integer count together with a title and a banner, and then
\* the count is the one parsed from the page; in every other case the field is
\* absent, in the catalog under construction and in the written artifact.
C14_SubsOnlyAsScraped ==
    /\ \A i \in DOMAIN mods : CountAsScraped(mods[i])
    /\ phase = "done" => \A i \in DOMAIN fileMods.data : CountAsScraped(fileMods.data[i])

\* C14 witness: the written artifact has an entry without a count whose page
\* gave a title, a banner and a count that is not an integer, and an entry
\* whose count 0 was parsed from the page.
C14_Witness ==
    /\ phase = "done"
    /\ \E i \in DOMAIN fileMods.data :
          /\ ScrapeOf(fileMods.data[i]) = Page("N/A", "Test Mod", Banner, <<>>)
          /\ "subs" \notin DOMAIN fileMods.data[i]
    /\ \E i \in DOMAIN fileMods.data :
          /\ ScrapeOf(fileMods.data[i]) = Page("0", "Test Mod", Banner, <<>>)
          /\ "subs" \in DOMAIN fileMods.data[i]

\* the task of a log entry failed: an exception escaped it or it returned None
Failed(e) == e.raised \/ e.result = NoMod

\* no earlier task of the log yielded an entry for the identifier of task k
FirstFor(k) ==
    \A k2 \in 1..(k - 1) : Failed(taskLog[k2]) \/ taskLog[k2].id # taskLog[k].id

\* a failed task never ends the run and puts nothing in the catalog, a task
\* that yielded an entry first for its identifier has it in the catalog
\* whatever the other tasks did, and a run that has ended normally has run the
\* task of every repository and written the catalog it built
FailuresIsolated ==
    /\ taskLog # <<>> => phase # "aborted"
    /\ \A k \in Consumed :
          IF Failed(taskLog[k])
            THEN EntriesOf(taskLog[k].repo.name) = {}
            ELSE FirstFor(k) => Cardinality(EntriesOf(taskLog[k].repo.name)) = 1
    /\ phase = "done" =>
          /\ {taskLog[k].repo : k \in DOMAIN taskLog} = Range(repos)
          /\ fileMods = File(mods)

\* a Featured candidate whose identifier resolved and whose scrape failed is
\* in the catalog as a partial entry
FeaturedKeptPartial ==
    \A k \in Consumed :
        LET e == taskLog[k]
        IN  (~e.raised /\ IsHighlightRepo(e.repo) /\ Truthy(e.id)
               /\ e.scrape = Unknown /\ FirstFor(k))
            => \E i \in EntriesOf(e.repo.name) :
                  "subs" \notin DOMAIN mods[i] /\ mods[i].banner = ""

\* C15: no single repository's resolution or scrape failure (an absent result
\* or an exception escaping its task) aborts the run or changes the outcome of
\* another repository: the run still completes both passes and writes the
\* artifact, the failing candidate being excluded (Discovered) or kept as a
\* partial entry (Featured).
C15_FailuresDegrade == FailuresIsolated /\ FeaturedKeptPartial

\* the URL of entry m is the one its resolution gives: the homepage of its
\* repository as it is for a Featured entry, the template with the resolved
\* identifier for a Discovered one
UrlAsResolved(m) ==
    LET e == taskLog[LogIndex(m.repo_url)]
    IN  IF m.highlight
          THEN m.steam_url = HomepageUrl(e.repo.homepage)
          ELSE m.steam_url = TemplateUrl(e.id)

\* C17: every catalog entry's canonical listing URL is derived from its
\* resolution: a Featured entry keeps the homepage URL of its repository
\* verbatim, and the URL of a Discovered entry is the fixed listing URL template
\* followed by its identifier; so it is in the written artifact.
C17_UrlAsResolved ==
    /\ \A i \in DOMAIN mods : UrlAsResolved(mods[i])
    /\ phase = "done" => \A i \in DOMAIN fileMods.data : UrlAsResolved(fileMods.data[i])

\* C17 witness: the written artifact holds a Featured entry with its homepage
\* as URL and a Discovered entry with the template URL of its identifier.
C17_Witness ==
    /\ phase = "done"
    /\ \E i \in DOMAIN fileMods.data : \E j \in DOMAIN fileMods.data :
          /\ fileMods.data[i].highlight
          /\ fileMods.data[i].steam_url.kind = "homepage"
          /\ ~fileMods.data[j].highlight
          /\ fileMods.data[j].steam_url.kind = "template"
          /\ fileMods.data[j].steam_url.id = taskLog[LogIndex(fileMods.data[j].repo_url)].id

\* the repositories of the first pass
HighlightRepos == {repos[n] : n \in {k \in DOMAIN repos : IsHighlightRepo(repos[k])}}

\* every first-pass task has completed and its result has been applied to the
\* catalog and to the set of seen identifiers
FirstPassApplied ==
    /\ \A repo \in HighlightRepos :
          /\ repo \notin running
          /\ \A i \in DOMAIN tasks : tasks[i] # repo
          /\ \E k \in Consumed : taskLog[k].repo = repo /\ taskLog[k].pass = "pass1"
    /\ \A k \in DOMAIN taskLog :
          (taskLog[k].pass = "pass1" /\ ~Failed(taskLog[k]))
              => /\ k \in Consumed
                 /\ taskLog[k].id \in seen_workshop_ids
                 /\ \E i \in DOMAIN mods : mods[i].workshop_id = taskLog[k].id

\* a second-pass task has been submitted, is running or has completed
SecondPassUnderWay ==
    \/ \E i \in DOMAIN tasks : IsRemainingRepo(tasks[i])
    \/ \E repo \in running : IsRemainingRepo(repo)
    \/ \E k \in DOMAIN taskLog : IsRemainingRepo(taskLog[k].repo)

\* C20: at every moment of a run at most one resolve+scrape task is executing,
\* and no pass-2 task is submitted or started before every pass-1 task has
\* completed and its result has been applied to the catalog and to the
\* seen-identifier set.
C20_OneWorkerPassesInOrder ==
    /\ Cardinality(running) <= 1
    /\ (phase \in {"pass1", "pass2"} /\ SecondPassUnderWay) => FirstPassApplied

\* C20 witness: a second-pass task is running after two first-pass tasks, one
\* of which yielded an entry, were handled.
C20_Witness ==
    /\ phase = "pass2"
    /\ \E repo \in running : IsRemainingRepo(repo)
    /\ Cardinality(HighlightRepos) = 2
    /\ Len(mods) = 1

\* C25: provenance follows the partition: every entry added to the catalog
\* during pass 1 (candidates whose homepage matches the listing-URL pattern) is
\* Featured and every entry added during pass 2 is Discovered, and a pass-1
\* candidate is never subjected to the title rule of Discovered candidates: it
\* yields an entry whenever its identifier resolved.
C25_ProvenanceFollowsPass ==
    /\ \A i \in DOMAIN mods :
          mods[i].highlight <=> taskLog[LogIndex(mods[i].repo_url)].pass = "pass1"
    /\ \A k \in DOMAIN taskLog :
          (taskLog[k].pass = "pass1" /\ ~taskLog[k].raised /\ Truthy(taskLog[k].id))
              => taskLog[k].result # NoMod

(***************************************************************************)
(* Further claims about the runs in succession, checked under SpecRuns.    *)
(***************************************************************************)
\* the URLs of the loaded queue whose entries are in the catalog, in queue order
QueuedInCatalog ==
    LET InCatalog(u) == \E i \in DOMAIN mods : mods[i].repo_url = u
    IN  SelectSeq(pending_queue, InCatalog)

\* the catalog URLs with no statistics known at the start of the run that are
\* not among the queued ones, in catalog order
UnknownNotQueued ==
    LET Fresh(u) == u \notin statsAtLoad /\ u \notin Range(QueuedInCatalog)
    IN  SelectSeq(Urls(mods), Fresh)

C27_StatsNeverRegress ==
    phase = "done" =>
        \A i \in DOMAIN fileMods.data :
            fileMods.data[i].repo_url \in statsAtLoad
                => "github" \in DOMAIN fileMods.data[i]

\* C27 witness: a later run in which no statistics fetch succeeded has written
\* an entry with the statistics it found in the previous artifact.
C27_Witness ==
    /\ phase = "done" /\ run > 1
    /\ apiRequests # <<>> /\ fetchedOk = {}
    /\ \E i \in DOMAIN fileMods.data :
          /\ fileMods.data[i].repo_url \in statsAtLoad
          /\ "github" \in DOMAIN fileMods.data[i]

(***************************************************************************)
(* Claims about the marker file, checked under SpecMarker.                 *)
(***************************************************************************)
\* the lines of the parsed text that begin with "id=", as they stand in the
\* file and once trimmed
LinesWithId == {i \in DOMAIN SplitLines(markerText) :
                   StartsWith(SplitLines(markerText)[i], IdPrefix)}
TrimmedLinesWithId == {i \in DOMAIN SplitLines(markerText) :
                          StartsWith(Strip(SplitLines(markerText)[i]), IdPrefix)}

\* the text after the "id=" of line i, trimmed
ValueOfLine(i) ==
    LET line == Strip(SplitLines(markerText)[i])
    IN  Strip(SubSeq(line, Len(IdPrefix) + 1, Len(line)))

\* the first of a non-empty set of line numbers
First(is) == CHOOSE i \in is : \A j \in is : i <= j

\* C16 (as stated): the resolved identifier is the trimmed text after the
\* separator of the first line of the file that begins with "id=", whatever
\* lines come before or after it, and there is none when no line begins so.
C16_FirstIdLine ==
    markerPc = "parsed" =>
        IF LinesWithId = {}
          THEN markerId = NotFound
          ELSE markerId = Found(ValueOfLine(First(LinesWithId)))

\* C16 (amended): the resolved identifier is the trimmed text after the
\* separator of the first line that begins with "id=" once the whitespace
\* around the line is removed, whatever lines come before or after it, and
\* there is none when no line does.
C16_FirstTrimmedIdLine ==
    markerPc = "parsed" =>
        IF TrimmedLinesWithId = {}
          THEN markerId = NotFound
          ELSE markerId = Found(ValueOfLine(First(TrimmedLinesWithId)))

\* C16 witness: a file of three lines whose second line is the first with the
\* key, with a value that has whitespace around it, has been parsed to the
\* value without the whitespace.
C16_Witness ==
    /\ markerPc = "parsed"
    /\ Len(SplitLines(markerText)) = 3
    /\ First(TrimmedLinesWithId \cup {4}) = 2
    /\ SplitLines(markerText)[2] = IdPrefix \o <<SP, "8", SP>>
    /\ 3 \in TrimmedLinesWithId
    /\ markerId = Found(<<"8">>)

(***************************************************************************)
(* Claims about the termination of acquire(), checked under SpecAcquire.   *)
(***************************************************************************)
\* C21: every acquire() call eventually records its request and returns,
\* provided time advances and the lock is granted fairly: the caller holding
\* the lock sleeps at most once, for at most W plus the safety margin, and
\* after that sleep the deque holds fewer than N timestamps, so the request is
\* recorded without a further wait.
C21_AcquireReturns ==
    /\ \A t \in Threads : (pc[t] = "l302") ~> (pc[t] = "l308")
    /\ [](\A t \in Threads : pc[t] = "l99" => Len(requests) < MaxRequests)
    /\ [][\A t \in Threads :
            /\ (pc[t] = "l302" /\ pc'[t] = "l92")
                  => wakeAt'[t] - clock <= Window + SafetyMargin
            /\ pc[t] = "l92" => pc'[t] \in {"l92", "l99"}
            /\ pc[t] = "l99" => pc'[t] \in {"l99", "l308"}]_vars

\* C21 witness: a thread has slept in acquire() for the longest time, W plus
\* the margin, and has recorded its request at the tick at which it woke.
C21_Witness ==
    \E t \in Threads :
        /\ pc[t] = "l308"
        /\ wakeAt[t] = clock
        /\ Len(recorded) > MaxRequests
        /\ recorded[Len(recorded)] - recorded[Len(recorded) - MaxRequests]
              = Window + SafetyMargin


(***************************************************************************)
(* Claims about the subscriber count of a page, checked under SpecSoup.    *)
(***************************************************************************)
\* the rows of the stats tables of a page, in document order
RECURSIVE StatsRows(_)
StatsRows(tables) ==
    IF tables = <<>> THEN <<>>
    ELSE (IF Head(tables).stats THEN Head(tables).rows ELSE <<>>) \o StatsRows(Tail(tables))

\* a row of two cells, the second of which contains "Subscribers"
Matches(cols) == Len(cols) = 2 /\ HasSubscribers(cols[2])

\* C22: the subscriber count is taken from the first row, over all the stats
\* tables in document order, whose second cell contains "Subscribers" (its
\* first cell, trimmed, without commas); no later row or table overrides it.
C22_FirstMatchWins ==
    soupPc = "scanned" =>
        LET rows == StatsRows(soupTables)
        IN  \A i \in DOMAIN rows :
                (Matches(rows[i]) /\ \A k \in 1..(i - 1) : ~Matches(rows[k]))
                    => sub_count = RemoveCommas(Strip(rows[i][1]))

(***************************************************************************)
(* Claims about the resolver, checked under SpecResolve.                   *)
(***************************************************************************)
\* the answer carries no identifier: an exception, a status other than 200, or
\* a text without a line that starts with "id=" once trimmed
YieldsNoId(f) ==
    \/ f.status # "200"
    \/ \A i \in DOMAIN SplitLines(f.text) :
          ~StartsWith(Strip(SplitLines(f.text)[i]), IdPrefix)

\* C23: a call that finds an identifier in the homepage issues no request;
\* any other call issues one request for the default branch and a second one,
\* for the secondary branch, exactly when the first answer carried no
\* identifier (exception, status other than 200, no marker line); a call all
\* of whose fetches failed returns "no identifier".
C23_ResolverRequests ==
    resPc = "returned" =>
        /\ (IsHighlightHomepage(resRepo.homepage) /\ resRepo.homepage.id # None)
              => resRequests = <<>>
        /\ ~(IsHighlightHomepage(resRepo.homepage) /\ resRepo.homepage.id # None)
              => /\ Len(resRequests) \in {1, 2}
                 /\ resRequests[1].branch = "main"
                 /\ Len(resRequests) = 2 <=> YieldsNoId(resRequests[1].response)
                 /\ Len(resRequests) = 2 => resRequests[2].branch = "master"
                 /\ (\A i \in DOMAIN resRequests : YieldsNoId(resRequests[i].response))
                       => resResult = <<None, FALSE, NoUrl>>

\* C23 witness: a call whose default-branch fetch raised and whose
\* secondary-branch fetch was answered 404 has returned "no identifier".
C23_Witness ==
    /\ resPc = "returned" /\ Len(resRequests) = 2
    /\ resRequests[1].response.status = "error"
    /\ resRequests[2].response.status = "404"
    /\ resResult = <<None, FALSE, NoUrl>>


(***************************************************************************)
(* Claims about the termination of a run, checked under SpecOneRun.        *)
(***************************************************************************)
\* C24: a run always terminates, by completing or by aborting: no step from
\* the enumeration of the repositories to the write of the artifact blocks
\* for ever.
C24_RunTerminates == <>(phase \in {"done", "aborted"})

\* once the repositories are enumerated the run completes
EnumeratedRunCompletes == (phase = "generate_json") ~> (phase = "done")


(***************************************************************************)
(* Claims about runs without end, checked under SpecForever.               *)
(***************************************************************************)
\* a run completed with a catalog other than the whole set of repositories
CatalogChanged == phase = "done" /\ RepoMapKeys(mods) # RepoNames

\* the run requested the statistics of u and the request failed
FetchFailed(u) == u \in Range(apiRequests) /\ u \notin fetchedOk

\* the artifact on disk has statistics for u
HasStats(u) == u \in load_existing_stats(fileMods)

\* C26: over runs without end on a fixed catalog, with a budget of at least
\* one request per run and a catalog larger than the budget, every
\* repository whose statistics fetch succeeds whenever it is attempted
\* eventually has statistics in the artifact, whatever happens to the fetches
\* of the others; and if every fetch succeeds the pending queue on disk is
\* eventually empty for ever.
C26_AmortisationProgress ==
    /\ \A u \in RepoNames : <>(CatalogChanged \/ FetchFailed(u) \/ HasStats(u))
    /\ \/ <>(CatalogChanged \/ \E u \in RepoNames : FetchFailed(u))
       \/ <>[](load_queue(fileQueue) = <<>>)

\* C26 witness: a run on the whole catalog fetched the statistics of one
\* queued repository while the artifact already had those of another and a
\* third is still waiting.
C26_Witness ==
    /\ phase = "done" /\ RepoMapKeys(mods) = RepoNames
    /\ GITHUB_API_LIMIT >= 1 /\ Len(mods) > GITHUB_API_LIMIT
    /\ statsAtLoad # {} /\ fetchedOk # {}
    /\ load_queue(fileQueue) # <<>>
    /\ \E u \in RepoNames : ~HasStats(u)

=============================================================================
